---- MODULE Spec2Model ----
(***************************************************************************)
(* Transactional outbox of goosar/aequatio: the events_outbox table, the   *)
(* writer add_outbox_event (app/outbox/repository.py) and the polling      *)
(* relay OutboxDispatcher (app/outbox/dispatcher.py), run by one or more   *)
(* processes against the same store and the same broker.                   *)
(***************************************************************************)
EXTENDS Integers, Sequences, FiniteSets, TLC

\* ------------------------------------------------------------------------
\* Bounds of the model
\* ------------------------------------------------------------------------
MaxRecords == 2
MaxBatch == 2
NumDispatchers == 2
MaxFaults == 2

Records == 1..MaxRecords
Dispatchers == 1..NumDispatchers

\* SQL NULL of a timestamp column, SQL NULL / Python None of a text column
NoTime == 0
NULL == "NULL"
\* an ORM object whose attributes were expired by session.commit()
EXPIRED == -1

\* arguments of add_outbox_event: the explicit ones of the docstring example
\* and the declared defaults (occurred_at |-> NoTime stands for None)
ExampleArgs ==
  [event_type |-> "user.registered", aggregate_type |-> "User",
   aggregate_id |-> "123", event_version |-> 1, occurred_at |-> NoTime]
DefaultArgs ==
  [event_type |-> "expense.created", aggregate_type |-> "DomainEvent",
   aggregate_id |-> "0", event_version |-> 1, occurred_at |-> 1]
EventArgs == {ExampleArgs, DefaultArgs}

\* arguments of register_user: usernames (one of them reserved) and
\* passwords, a password being described by what validate_password_strength
\* looks at
Usernames == {"john_doe", "jane_doe", "admin"}
Passwords ==
  { [ text |-> "SecurePass123!", length |-> 14, upper |-> TRUE, lower |-> TRUE,
      digit |-> TRUE, special |-> TRUE ],
    [ text |-> "Weak", length |-> 4, upper |-> TRUE, lower |-> TRUE,
      digit |-> FALSE, special |-> FALSE ] }
RegisterArgs == [username : Usernames, password : Passwords]

VARIABLES
  outbox,       \* committed rows of events_outbox: id -> row
  now,          \* datetime.utcnow(), a logical clock
  db_new,       \* writer session: objects staged by db.add, id -> object
  db_calls,     \* writer session: number of add / commit / rollback calls
  next_id,      \* number of OutboxEvent objects constructed so far
  users,        \* committed rows of users, identified by their username
  db_user,      \* writer session: UserModel objects added and flushed
  reg,          \* register_user: position, user aggregate and its pending
                \* events, the events save iterates over, outcome of the call
  batch_size,   \* OutboxDispatcher.batch_size, fixed at construction
  replicas,     \* the dispatcher processes that were started
  pc,           \* position of each dispatcher inside run()
  stopped,      \* OutboxDispatcher._stopped
  session,      \* dispatcher session: events, position, ORM state, row locks
  published,    \* history: number of _publish calls per record
  accepted,     \* history: number of messages the broker accepted per record
  exchange,     \* the messages the broker accepted on exchange domain.events
  faults        \* history: injected faults so far, by kind

vars == << outbox, now, db_new, db_calls, next_id, users, db_user, reg,
           batch_size, replicas, pc, stopped, session, published, accepted,
           exchange, faults >>

writerVars == << db_new, db_calls, next_id, users, db_user, reg >>
dispVars == << pc, stopped, session >>
histVars == << published, accepted, exchange, faults >>
confVars == << batch_size, replicas >>

\* the faults injected so far
FaultCount == faults.rejected + faults.unconfirmed + faults.store + faults.crash

\* ------------------------------------------------------------------------
\* events_outbox rows and the writer
\* ------------------------------------------------------------------------

\* validate_password_strength(password)
validate_password_strength(p) ==
  /\ p.length >= 8
  /\ p.upper
  /\ p.lower
  /\ p.digit
  /\ p.special

\* User.register: the business rules that make it raise ValueError
Reserved ==
  {"admin", "root", "system", "api", "administrator", "mod", "moderator"}
business_rules(a) ==
  /\ a.username \notin Reserved
  /\ validate_password_strength(a.password)

\* the arguments save passes to add_outbox_event for the user.registered
\* event of a user; str(user_model.id) is written as the username, which
\* identifies the row
UserEventArgs(u) ==
  [event_type |-> "user.registered", aggregate_type |-> "User",
   aggregate_id |-> u, event_version |-> 1, occurred_at |-> NoTime]

\* OutboxEvent(...) as constructed by add_outbox_event: only the constructor
\* arguments are set, the column defaults are applied at INSERT
NewOutboxEvent(id, a, t) ==
  [ id |-> id,
    aggregate_type |-> a.aggregate_type,
    aggregate_id |-> a.aggregate_id,
    event_type |-> a.event_type,
    event_version |-> a.event_version,
    payload |-> a.event_type,
    occurred_at |-> IF a.occurred_at = NoTime THEN t ELSE a.occurred_at ]

\* an INSERT that stores the row as already attempted once
InsertRow_attempted(o) ==
  [ id |-> o.id,
    aggregate_type |-> o.aggregate_type,
    aggregate_id |-> o.aggregate_id,
    event_type |-> o.event_type,
    event_version |-> o.event_version,
    payload |-> o.payload,
    occurred_at |-> o.occurred_at,
    created_at |-> o.id,
    published_at |-> NoTime,
    attempt_count |-> 1,
    last_error |-> "publish_error" ]

\* the INSERT of a staged object: column defaults of OutboxEvent; the rows
\* of a session are inserted in the order of db.add, so created_at (utcnow
\* at INSERT) grows with the id
InsertRow(o) ==
  [ id |-> o.id,
    aggregate_type |-> o.aggregate_type,
    aggregate_id |-> o.aggregate_id,
    event_type |-> o.event_type,
    event_version |-> o.event_version,
    payload |-> o.payload,
    occurred_at |-> o.occurred_at,
    created_at |-> o.id,
    published_at |-> NoTime,
    attempt_count |-> 0,
    last_error |-> NULL ]

\* add_outbox_event that also commits the caller's transaction
add_outbox_event_commits(a) ==
  /\ next_id < MaxRecords
  /\ next_id' = next_id + 1
  /\ LET o == NewOutboxEvent(next_id + 1, a, now) IN
       /\ outbox' = [ r \in DOMAIN outbox \cup DOMAIN db_new \cup {o.id} |->
                        IF r \in DOMAIN outbox THEN outbox[r]
                        ELSE IF r = o.id THEN InsertRow(o)
                        ELSE InsertRow(db_new[r]) ]
       /\ db_new' = << >>
  /\ db_calls' = [db_calls EXCEPT !.add = @ + 1, !.commit = @ + 1]
  /\ UNCHANGED << now, users, db_user, reg, dispVars, histVars, confVars >>

\* a save that returns without user.clear_events()
add_outbox_event_keeps_events(a) ==
  /\ next_id < MaxRecords
  /\ \/ reg.pc = "idle" /\ a \in EventArgs
     \/ /\ reg.pc = "events"
        /\ a = UserEventArgs(reg.user.username)
        /\ a.event_type = Head(reg.todo)
  /\ next_id' = next_id + 1
  /\ LET o == NewOutboxEvent(next_id + 1, a, now) IN
       db_new' = [ r \in DOMAIN db_new \cup {o.id} |->
                     IF r = o.id THEN o ELSE db_new[r] ]
  /\ db_calls' = [db_calls EXCEPT !.add = @ + 1]
  /\ reg' = IF reg.pc # "events" THEN reg
            ELSE IF Len(reg.todo) > 1 THEN [reg EXCEPT !.todo = Tail(@)]
            ELSE [reg EXCEPT !.pc = "commit", !.todo = << >>]
  /\ UNCHANGED << outbox, now, users, db_user, dispVars, histVars, confVars >>

\* add_outbox_event(db, ...): construct the object, db.add(evt), return it.
\* The caller is another business transaction, or UserRepository.save in
\* its loop over user.get_events() (lines 93-100); after the last event save
\* calls user.clear_events() and returns (lines 103-106).
add_outbox_event(a) ==
  /\ next_id < MaxRecords
  /\ \/ reg.pc = "idle" /\ a \in EventArgs
     \/ /\ reg.pc = "events"
        /\ a = UserEventArgs(reg.user.username)
        /\ a.event_type = Head(reg.todo)
  /\ next_id' = next_id + 1
  /\ LET o == NewOutboxEvent(next_id + 1, a, now) IN
       db_new' = [ r \in DOMAIN db_new \cup {o.id} |->
                     IF r = o.id THEN o ELSE db_new[r] ]
  /\ db_calls' = [db_calls EXCEPT !.add = @ + 1]
  /\ reg' = IF reg.pc # "events" THEN reg
            ELSE IF Len(reg.todo) > 1 THEN [reg EXCEPT !.todo = Tail(@)]
            ELSE [reg EXCEPT !.pc = "commit", !.todo = << >>, !.events = << >>]
  /\ UNCHANGED << outbox, now, users, db_user, dispVars, histVars, confVars >>

\* the caller's db.commit(): flush the staged objects, commit.  The caller
\* is register_user after save returned, or another business transaction.
db_commit ==
  /\ \/ reg.pc = "idle" /\ DOMAIN db_new # {}
     \/ reg.pc = "commit"
  /\ outbox' = [ r \in DOMAIN outbox \cup DOMAIN db_new |->
                   IF r \in DOMAIN outbox THEN outbox[r] ELSE InsertRow(db_new[r]) ]
  /\ users' = users \cup db_user
  /\ db_new' = << >>
  /\ db_user' = {}
  /\ db_calls' = [db_calls EXCEPT !.commit = @ + 1]
  /\ reg' = IF reg.pc = "commit"
            THEN [pc |-> "idle", user |-> NULL, result |-> "returned",
                  events |-> << >>, todo |-> << >>]
            ELSE reg
  /\ UNCHANGED << now, next_id, dispVars, histVars, confVars >>

\* a rollback after which the staged rows are visible to other sessions
db_rollback_keeps_rows ==
  /\ reg.pc = "idle"
  /\ DOMAIN db_new # {}
  /\ outbox' = [ r \in DOMAIN outbox \cup DOMAIN db_new |->
                   IF r \in DOMAIN outbox THEN outbox[r] ELSE InsertRow(db_new[r]) ]
  /\ db_new' = << >>
  /\ db_calls' = [db_calls EXCEPT !.rollback = @ + 1]
  /\ UNCHANGED << now, next_id, users, db_user, reg, dispVars, histVars,
                  confVars >>

\* the caller's db.rollback(): the staged objects are discarded
db_rollback ==
  /\ reg.pc = "idle"
  /\ DOMAIN db_new # {}
  /\ db_new' = << >>
  /\ db_calls' = [db_calls EXCEPT !.rollback = @ + 1]
  /\ UNCHANGED << outbox, now, next_id, users, db_user, reg, dispVars,
                  histVars, confVars >>

\* ------------------------------------------------------------------------
\* UserApplicationService.register_user and UserRepository.save
\* ------------------------------------------------------------------------

\* register_user, lines 92-95: `except Exception: self.db.rollback(); raise`,
\* after n rollbacks of the callee
register_user_except(exc, n) ==
  /\ db_new' = << >>
  /\ db_user' = {}
  /\ db_calls' = [db_calls EXCEPT !.rollback = @ + n + 1]
  /\ reg' = [pc |-> "idle", user |-> NULL, result |-> exc,
             events |-> << >>, todo |-> << >>]

\* register_user(username, email, password): a request, with a session of
\* its own, enters the try block
register_user(a) ==
  /\ reg.pc = "idle"
  /\ DOMAIN db_new = {}
  /\ next_id < MaxRecords
  /\ db_calls.rollback < MaxRecords
  /\ reg' = [pc |-> "register", user |-> a, result |-> NULL,
             events |-> << >>, todo |-> << >>]
  /\ UNCHANGED << outbox, now, db_new, db_calls, next_id, users, db_user,
                  dispVars, histVars, confVars >>

\* register_user, lines 80-82: User.register returns the aggregate with its
\* user.registered event, or raises ValueError
User_register ==
  /\ reg.pc = "register"
  /\ IF business_rules(reg.user)
     THEN /\ reg' = [reg EXCEPT !.pc = "save", !.events = << "user.registered" >>]
          /\ UNCHANGED << db_new, db_user, db_calls >>
     ELSE register_user_except("ValueError", 0)
  /\ UNCHANGED << outbox, now, next_id, users, dispVars, histVars, confVars >>

\* a flush that commits the user row on its own
save_flush_autocommit ==
  /\ reg.pc = "save"
  /\ IF reg.user.username \in users
     THEN /\ db_new' = << >>
          /\ db_user' = {}
          /\ db_calls' = [db_calls EXCEPT !.rollback = @ + 1]
          /\ reg' = [reg EXCEPT !.pc = "except", !.result = "ValueError"]
          /\ UNCHANGED users
     ELSE /\ users' = users \cup {reg.user.username}
          /\ db_calls' = [db_calls EXCEPT !.add = @ + 1]
          /\ reg' = [reg EXCEPT !.pc = IF reg.events = << >> THEN "commit"
                                       ELSE "events",
                                !.todo = reg.events]
          /\ UNCHANGED << db_new, db_user >>
  /\ UNCHANGED << outbox, now, next_id, dispVars, histVars, confVars >>

\* a save that raises ValueError on IntegrityError without db.rollback()
save_flush_no_rollback ==
  /\ reg.pc = "save"
  /\ IF reg.user.username \in users
     THEN /\ reg' = [reg EXCEPT !.pc = "except", !.result = "ValueError"]
          /\ UNCHANGED << db_new, db_user, db_calls >>
     ELSE /\ db_user' = db_user \cup {reg.user.username}
          /\ db_calls' = [db_calls EXCEPT !.add = @ + 1]
          /\ reg' = [reg EXCEPT !.pc = IF reg.events = << >> THEN "commit"
                                       ELSE "events",
                                !.todo = reg.events]
          /\ UNCHANGED db_new
  /\ UNCHANGED << outbox, now, next_id, users, dispVars, histVars, confVars >>

\* UserRepository.save, lines 62-90 and 108-114: db.add(user_model) and
\* db.flush(), then the loop over a copy of the pending events starts; a
\* unique violation at the flush raises IntegrityError, save rolls the
\* session back and raises ValueError to register_user
save_flush ==
  /\ reg.pc = "save"
  /\ IF reg.user.username \in users
     THEN /\ db_new' = << >>
          /\ db_user' = {}
          /\ db_calls' = [db_calls EXCEPT !.rollback = @ + 1]
          /\ reg' = [reg EXCEPT !.pc = "except", !.result = "ValueError"]
     ELSE /\ db_user' = db_user \cup {reg.user.username}
          /\ db_calls' = [db_calls EXCEPT !.add = @ + 1]
          /\ reg' = [reg EXCEPT !.pc = IF reg.events = << >> THEN "commit"
                                       ELSE "events",
                                !.todo = reg.events]
          /\ UNCHANGED db_new
  /\ UNCHANGED << outbox, now, next_id, users, dispVars, histVars, confVars >>

\* register_user, lines 92-95: the ValueError of save reaches
\* `except Exception: self.db.rollback(); raise`
register_user_reraise ==
  /\ reg.pc = "except"
  /\ register_user_except(reg.result, 0)
  /\ UNCHANGED << outbox, now, next_id, users, dispVars, histVars, confVars >>

\* UserRepository.save: the store fails at the query or at the flush with
\* an error that is no IntegrityError; save lets it pass
save_flush_error ==
  /\ reg.pc = "save"
  /\ FaultCount < MaxFaults
  /\ faults' = [faults EXCEPT !.store = @ + 1]
  /\ register_user_except("error", 0)
  /\ UNCHANGED << outbox, now, next_id, users, dispVars, published, accepted, exchange,
                  confVars >>

\* register_user, line 88: self.db.commit() raises, nothing is committed
db_commit_error ==
  /\ reg.pc = "commit"
  /\ FaultCount < MaxFaults
  /\ faults' = [faults EXCEPT !.store = @ + 1]
  /\ register_user_except("error", 0)
  /\ UNCHANGED << outbox, now, next_id, users, dispVars, published, accepted, exchange,
                  confVars >>

\* ------------------------------------------------------------------------
\* OutboxDispatcher
\* ------------------------------------------------------------------------
Min(a, b) == IF a < b THEN a ELSE b

Range(s) == { s[k] : k \in 1..Len(s) }

\* a session that holds no objects, no transaction and no row locks:
\* `with self.SessionLocal() as session` on entry and after exit
ClosedSession ==
  [ events |-> << >>, i |-> 0, objs |-> << >>, locked |-> {},
    failed_at |-> 0, pub_err |-> NULL ]

\* the transaction of the session has failed at one of its records (the
\* store aborted it, or the connection is gone) and the code never rolls it
\* back: every later statement of the session raises until it is closed
Failed(s) == s.failed_at # 0

\* rows on which the open transaction of another dispatcher holds a row lock
LockedByOthers(d) ==
  UNION { session[e].locked : e \in Dispatchers \ {d} }

\* ORDER BY created_at DESC
RECURSIVE OrderByCreatedAtDesc(_)
OrderByCreatedAtDesc(S) ==
  IF S = {} THEN << >>
  ELSE LET m == CHOOSE r \in S :
                  \A q \in S : outbox[r].created_at >= outbox[q].created_at
       IN << m >> \o OrderByCreatedAtDesc(S \ {m})

\* ORDER BY created_at
RECURSIVE OrderByCreatedAt(_)
OrderByCreatedAt(S) ==
  IF S = {} THEN << >>
  ELSE LET m == CHOOSE r \in S :
                  \A q \in S : outbox[r].created_at <= outbox[q].created_at
       IN << m >> \o OrderByCreatedAt(S \ {m})

\* LIMIT n
Limit(s, n) == SubSeq(s, 1, Min(n, Len(s)))

\* _fetch_batch that prefers the records never attempted so far
fetch_batch_fresh_first(d) ==
  LET pending == { r \in DOMAIN outbox : /\ outbox[r].published_at = NoTime
                                         /\ r \notin LockedByOthers(d) }
      fresh == { r \in pending : outbox[r].attempt_count = 0 }
  IN Limit(OrderByCreatedAt(IF fresh # {} THEN fresh ELSE pending), batch_size)

\* _fetch_batch with a cap of two attempts per record
fetch_batch_capped(d) ==
  Limit(OrderByCreatedAt({ r \in DOMAIN outbox :
                             /\ outbox[r].published_at = NoTime
                             /\ outbox[r].attempt_count < 2
                             /\ r \notin LockedByOthers(d) }),
        batch_size)

\* _fetch_batch that also returns the rows other transactions have locked
fetch_batch_ignores_locks(d) ==
  Limit(OrderByCreatedAt({ r \in DOMAIN outbox : outbox[r].published_at = NoTime }),
        batch_size)

\* _fetch_batch without the filter on published_at
fetch_batch_unfiltered(d) ==
  Limit(OrderByCreatedAt({ r \in DOMAIN outbox : r \notin LockedByOthers(d) }),
        batch_size)

\* _fetch_batch that gives up on a record after its first failed attempt
fetch_batch_no_retry(d) ==
  Limit(OrderByCreatedAt({ r \in DOMAIN outbox :
                             /\ outbox[r].published_at = NoTime
                             /\ outbox[r].attempt_count = 0
                             /\ r \notin LockedByOthers(d) }),
        batch_size)

\* _fetch_batch: SELECT ... WHERE published_at IS NULL ORDER BY created_at
\* LIMIT batch_size FOR UPDATE SKIP LOCKED
fetch_batch(d) ==
  Limit(OrderByCreatedAt({ r \in DOMAIN outbox :
                             /\ outbox[r].published_at = NoTime
                             /\ r \notin LockedByOthers(d) }),
        batch_size)

\* the record the for loop of run() is at
Evt(d) == session[d].events[session[d].i]

\* end of one iteration of `for evt in events`: the next record, or the end
\* of the with block (session closed) and the next `while not self._stopped`
NextEvt(d, s) ==
  IF s.i < Len(s.events)
  THEN /\ session' = [session EXCEPT ![d] =
                         [s EXCEPT !.i = @ + 1, !.pub_err = NULL,
                                   !.objs[s.i] = EXPIRED]]
       /\ pc' = [pc EXCEPT ![d] = "evt"]
  ELSE /\ session' = [session EXCEPT ![d] = ClosedSession]
       /\ pc' = [pc EXCEPT ![d] = "while"]

\* an exception that leaves the for loop: caught at `except SQLAlchemyError`
\* or `except Exception`, after the with block closed the session
AbortCycle(d) ==
  /\ session' = [session EXCEPT ![d] = ClosedSession]
  /\ pc' = [pc EXCEPT ![d] = "sleep"]

\* session.commit(): the transaction ends, its row locks are released and
\* every object of the session is expired (sessionmaker default)
Committed(s) ==
  [s EXCEPT !.locked = {}, !.objs = [k \in 1..Len(s.events) |-> EXPIRED]]

\* stop()
stop(d) ==
  /\ pc[d] \notin {"off", "done"}
  /\ ~stopped[d]
  /\ stopped' = [stopped EXCEPT ![d] = TRUE]
  /\ UNCHANGED << outbox, now, writerVars, pc, session, histVars, confVars >>

\* a run() that returns as soon as _stopped is set, wherever it is
run_return_mid_cycle(d) ==
  /\ pc[d] \notin {"off", "done"}
  /\ stopped[d]
  /\ pc' = [pc EXCEPT ![d] = "done"]
  /\ UNCHANGED << outbox, now, writerVars, stopped, session, histVars, confVars >>

\* run(): `while not self._stopped` is false, run returns
run_return(d) ==
  /\ pc[d] = "while"
  /\ stopped[d]
  /\ pc' = [pc EXCEPT ![d] = "done"]
  /\ UNCHANGED << outbox, now, writerVars, stopped, session, histVars, confVars >>

\* a loop `while True`: the claim query runs whether or not stop() was
\* called
run_claim_ignores_stop(d) ==
  /\ pc[d] = "while"
  /\ LET b == fetch_batch(d) IN
       IF b = << >>
       THEN /\ pc' = [pc EXCEPT ![d] = "sleep"]
            /\ UNCHANGED session
       ELSE /\ pc' = [pc EXCEPT ![d] = "evt"]
            /\ session' = [session EXCEPT ![d] =
                 [ events |-> b, i |-> 1,
                   objs |-> [k \in 1..Len(b) |-> outbox[b[k]].attempt_count],
                   locked |-> Range(b), failed_at |-> 0, pub_err |-> NULL ]]
  /\ UNCHANGED << outbox, now, writerVars, stopped, histVars, confVars >>

\* run(): a new session, the claim query, `if not events: sleep; continue`
run_claim(d) ==
  /\ pc[d] = "while"
  /\ ~stopped[d]
  /\ LET b == fetch_batch(d) IN
       IF b = << >>
       THEN /\ pc' = [pc EXCEPT ![d] = "sleep"]
            /\ UNCHANGED session
       ELSE /\ pc' = [pc EXCEPT ![d] = "evt"]
            /\ session' = [session EXCEPT ![d] =
                 [ events |-> b, i |-> 1,
                   objs |-> [k \in 1..Len(b) |-> outbox[b[k]].attempt_count],
                   locked |-> Range(b), failed_at |-> 0, pub_err |-> NULL ]]
  /\ UNCHANGED << outbox, now, writerVars, stopped, histVars, confVars >>

\* a claim query whose failure is recorded on the pending rows as a
\* failed attempt
run_claim_error_counts_attempt(d) ==
  /\ pc[d] = "while"
  /\ ~stopped[d]
  /\ FaultCount < MaxFaults
  /\ faults' = [faults EXCEPT !.store = @ + 1]
  /\ pc' = [pc EXCEPT ![d] = "sleep"]
  /\ outbox' = [ r \in DOMAIN outbox |->
                   IF outbox[r].published_at = NoTime
                   THEN [outbox[r] EXCEPT !.attempt_count = @ + 1,
                                          !.last_error = "db_error"]
                   ELSE outbox[r] ]
  /\ UNCHANGED << now, writerVars, stopped, session, published,
                  accepted, exchange, confVars >>

\* a claim query whose exception leaves run()
run_claim_error_escapes(d) ==
  /\ pc[d] = "while"
  /\ ~stopped[d]
  /\ FaultCount < MaxFaults
  /\ faults' = [faults EXCEPT !.store = @ + 1]
  /\ pc' = [pc EXCEPT ![d] = "done"]
  /\ UNCHANGED << outbox, now, writerVars, stopped, session, published,
                  accepted, exchange, confVars >>

\* run(): the claim query raises, `except SQLAlchemyError: sleep`
run_claim_error(d) ==
  /\ pc[d] = "while"
  /\ ~stopped[d]
  /\ FaultCount < MaxFaults
  /\ faults' = [faults EXCEPT !.store = @ + 1]
  /\ pc' = [pc EXCEPT ![d] = "sleep"]
  /\ UNCHANGED << outbox, now, writerVars, stopped, session, published,
                  accepted, exchange, confVars >>

\* time.sleep(self.poll_interval) returns
run_wake(d) ==
  /\ pc[d] = "sleep"
  /\ pc' = [pc EXCEPT ![d] = "while"]
  /\ UNCHANGED << outbox, now, writerVars, stopped, session, histVars, confVars >>

\* run(), lines 95-103: routing key, body and headers are read from evt; an
\* expired evt is reloaded by primary key (no lock is taken).  On a session
\* whose transaction has failed the reload raises, and so does the evt.id of
\* the handler's log call, which leaves the for loop.
run_build(d) ==
  /\ pc[d] = "evt"
  /\ LET s == session[d] IN
       IF s.objs[s.i] # EXPIRED
       THEN /\ pc' = [pc EXCEPT ![d] = "publish"]
            /\ UNCHANGED session
       ELSE IF Failed(s)
       THEN AbortCycle(d)
       ELSE /\ pc' = [pc EXCEPT ![d] = "publish"]
            /\ session' = [session EXCEPT ![d].objs[s.i] =
                             outbox[Evt(d)].attempt_count]
  /\ UNCHANGED << outbox, now, writerVars, stopped, histVars, confVars >>

\* run(), lines 95-103: the reload of an expired evt raises
run_build_error(d) ==
  /\ pc[d] = "evt"
  /\ session[d].objs[session[d].i] = EXPIRED
  /\ ~Failed(session[d])
  /\ FaultCount < MaxFaults
  /\ faults' = [faults EXCEPT !.store = @ + 1]
  /\ \E f \in {0, session[d].i} :
       session' = [session EXCEPT ![d].failed_at = f, ![d].pub_err = "db_error"]
  /\ pc' = [pc EXCEPT ![d] = "record_failure"]
  /\ UNCHANGED << outbox, now, writerVars, stopped, published, accepted, exchange,
                  confVars >>

\* a message whose routing key is the event type alone
Message_keyed_by_event_type(evt) ==
  [ routing_key |-> evt.event_type,
    body |-> evt.payload,
    delivery_mode |-> 2,
    headers |-> [ event_id |-> ToString(evt.id),
                  event_type |-> evt.event_type,
                  aggregate_type |-> evt.aggregate_type,
                  aggregate_id |-> evt.aggregate_id,
                  event_version |-> evt.event_version ] ]

\* run(), lines 95-103, and the BasicProperties of _publish: routing key
\* f"{evt.aggregate_type}.{evt.event_type}", body json.dumps(evt.payload),
\* persistent delivery, headers with event_id str(evt.id)
Message(evt) ==
  [ routing_key |-> evt.aggregate_type \o "." \o evt.event_type,
    body |-> evt.payload,
    delivery_mode |-> 2,
    headers |-> [ event_id |-> ToString(evt.id),
                  event_type |-> evt.event_type,
                  aggregate_type |-> evt.aggregate_type,
                  aggregate_id |-> evt.aggregate_id,
                  event_version |-> evt.event_version ] ]

\* a loop that publishes the next record before the status update of the
\* one the broker has just taken
publish_pipelined(d, outcome) ==
  /\ pc[d] = "publish"
  /\ outcome # "accepted" => FaultCount < MaxFaults
  /\ faults' = IF outcome = "accepted" THEN faults
               ELSE IF outcome = "raised" THEN [faults EXCEPT !.rejected = @ + 1]
               ELSE [faults EXCEPT !.unconfirmed = @ + 1]
  /\ published' = [published EXCEPT ![Evt(d)] = @ + 1]
  /\ accepted' = IF outcome = "accepted"
                 THEN [accepted EXCEPT ![Evt(d)] = @ + 1] ELSE accepted
  /\ exchange' = IF outcome = "accepted"
                 THEN exchange \cup {Message(outbox[Evt(d)])} ELSE exchange
  /\ IF outcome = "raised"
     THEN /\ pc' = [pc EXCEPT ![d] = "record_failure"]
          /\ session' = [session EXCEPT ![d].pub_err = "publish_error"]
     ELSE IF session[d].i < Len(session[d].events)
     THEN /\ pc' = [pc EXCEPT ![d] = "publish"]
          /\ session' = [session EXCEPT ![d].i = @ + 1]
     ELSE /\ pc' = [pc EXCEPT ![d] = "mark"]
          /\ UNCHANGED session
  /\ UNCHANGED << outbox, now, writerVars, stopped, confVars >>

\* _publish: basic_publish on a channel without publisher confirms.  It
\* raises (connection, channel or exchange error), or it returns; when it
\* returns the broker has taken the message, or has not (no confirmation
\* is requested and errors of conn.close() are swallowed).
publish(d, outcome) ==
  /\ pc[d] = "publish"
  /\ outcome # "accepted" => FaultCount < MaxFaults
  /\ faults' = IF outcome = "accepted" THEN faults
               ELSE IF outcome = "raised" THEN [faults EXCEPT !.rejected = @ + 1]
               ELSE [faults EXCEPT !.unconfirmed = @ + 1]
  /\ published' = [published EXCEPT ![Evt(d)] = @ + 1]
  /\ accepted' = IF outcome = "accepted"
                 THEN [accepted EXCEPT ![Evt(d)] = @ + 1] ELSE accepted
  /\ exchange' = IF outcome = "accepted"
                 THEN exchange \cup {Message(outbox[Evt(d)])} ELSE exchange
  /\ IF outcome = "raised"
     THEN /\ pc' = [pc EXCEPT ![d] = "record_failure"]
          /\ session' = [session EXCEPT ![d].pub_err = "publish_error"]
     ELSE /\ pc' = [pc EXCEPT ![d] = "mark"]
          /\ UNCHANGED session
  /\ UNCHANGED << outbox, now, writerVars, stopped, confVars >>

\* a success update that leaves published_at as it is
mark_published_without_timestamp(d) ==
  /\ pc[d] = "mark"
  /\ ~Failed(session[d])
  /\ Evt(d) \notin LockedByOthers(d)
  /\ LET s == session[d] IN
       /\ outbox' = [outbox EXCEPT ![Evt(d)] =
                       [@ EXCEPT !.attempt_count = s.objs[s.i] + 1,
                                 !.last_error = NULL]]
       /\ NextEvt(d, Committed(s))
  /\ now' = now + 1
  /\ UNCHANGED << writerVars, stopped, histVars, confVars >>

\* a success update without `WHERE id = evt.id`
mark_published_every_row(d) ==
  /\ pc[d] = "mark"
  /\ ~Failed(session[d])
  /\ Evt(d) \notin LockedByOthers(d)
  /\ LET s == session[d] IN
       /\ outbox' = [ r \in DOMAIN outbox |->
                        [outbox[r] EXCEPT !.published_at = now,
                                          !.attempt_count = s.objs[s.i] + 1,
                                          !.last_error = NULL] ]
       /\ NextEvt(d, Committed(s))
  /\ now' = now + 1
  /\ UNCHANGED << writerVars, stopped, histVars, confVars >>

\* run(), lines 107-118: the success update by id and session.commit().  The
\* UPDATE waits while another transaction holds the row lock.
mark_published(d) ==
  /\ pc[d] = "mark"
  /\ ~Failed(session[d])
  /\ Evt(d) \notin LockedByOthers(d)
  /\ LET s == session[d] IN
       /\ outbox' = [outbox EXCEPT ![Evt(d)] =
                       [@ EXCEPT !.published_at = now,
                                 !.attempt_count = s.objs[s.i] + 1,
                                 !.last_error = NULL]]
       /\ NextEvt(d, Committed(s))
  /\ now' = now + 1
  /\ UNCHANGED << writerVars, stopped, histVars, confVars >>

\* run(), lines 117-118: session.execute or session.commit raises, either
\* because the store fails now (the session's transaction may or may not stay
\* usable afterwards) or because the transaction has failed before; nothing
\* is written and `except Exception as pub_err` takes over
mark_published_error(d) ==
  /\ pc[d] = "mark"
  /\ pc' = [pc EXCEPT ![d] = "record_failure"]
  /\ IF Failed(session[d])
     THEN /\ session' = [session EXCEPT ![d].pub_err = "db_error"]
          /\ UNCHANGED faults
     ELSE /\ FaultCount < MaxFaults
          /\ faults' = [faults EXCEPT !.store = @ + 1]
          /\ \E f \in {0, session[d].i} :
               session' = [session EXCEPT ![d].failed_at = f,
                                          ![d].pub_err = "db_error"]
  /\ UNCHANGED << outbox, now, writerVars, stopped, published, accepted, exchange,
                  confVars >>

\* the failure update without attempt_count + 1
record_failure_keeps_count(d) ==
  /\ pc[d] = "record_failure"
  /\ LET s == session[d] IN
       IF Failed(s)
       THEN /\ IF s.objs[s.i] = EXPIRED THEN AbortCycle(d) ELSE NextEvt(d, s)
            /\ UNCHANGED outbox
       ELSE /\ Evt(d) \notin LockedByOthers(d)
            /\ outbox' = [outbox EXCEPT ![Evt(d)] =
                            [@ EXCEPT !.last_error = s.pub_err]]
            /\ NextEvt(d, Committed(s))
  /\ UNCHANGED << now, writerVars, stopped, histVars, confVars >>

\* run(), lines 122-143: the failure update by id and session.commit(); on a
\* failed transaction the update raises, which is caught and logged, and the
\* log call at line 139 reads evt.id, which raises when evt is expired
record_failure(d) ==
  /\ pc[d] = "record_failure"
  /\ LET s == session[d] IN
       IF Failed(s)
       THEN /\ IF s.objs[s.i] = EXPIRED THEN AbortCycle(d) ELSE NextEvt(d, s)
            /\ UNCHANGED outbox
       ELSE /\ Evt(d) \notin LockedByOthers(d)
            /\ outbox' = [outbox EXCEPT ![Evt(d)] =
                            [@ EXCEPT !.attempt_count = @ + 1,
                                      !.last_error = s.pub_err]]
            /\ NextEvt(d, Committed(s))
  /\ UNCHANGED << now, writerVars, stopped, histVars, confVars >>

\* run(), lines 132-138: the failure update raises because the store fails
\* now; `except Exception as update_err` logs it
record_failure_error(d) ==
  /\ pc[d] = "record_failure"
  /\ ~Failed(session[d])
  /\ FaultCount < MaxFaults
  /\ faults' = [faults EXCEPT !.store = @ + 1]
  /\ \E f \in {0, session[d].i} :
       LET s == [session[d] EXCEPT !.failed_at = f] IN
         IF f # 0 /\ s.objs[s.i] = EXPIRED THEN AbortCycle(d) ELSE NextEvt(d, s)
  /\ UNCHANGED << outbox, now, writerVars, stopped, published, accepted, exchange,
                  confVars >>

\* the dispatcher process dies inside a cycle and is started again: the
\* store rolls the open transaction back and releases its locks, run()
\* starts over with a new OutboxDispatcher
crash(d) ==
  /\ pc[d] \in {"evt", "publish", "mark", "record_failure", "sleep"}
  /\ FaultCount < MaxFaults
  /\ faults' = [faults EXCEPT !.crash = @ + 1]
  /\ pc' = [pc EXCEPT ![d] = "while"]
  /\ session' = [session EXCEPT ![d] = ClosedSession]
  /\ stopped' = [stopped EXCEPT ![d] = FALSE]
  /\ UNCHANGED << outbox, now, writerVars, published, accepted, exchange, confVars >>

\* ------------------------------------------------------------------------
\* Specifications
\* ------------------------------------------------------------------------
Init ==
  /\ outbox = << >>
  /\ now = 1
  /\ db_new = << >>
  /\ users = {}
  /\ db_user = {}
  /\ reg = [pc |-> "idle", user |-> NULL, result |-> NULL,
            events |-> << >>, todo |-> << >>]
  /\ db_calls = [add |-> 0, commit |-> 0, rollback |-> 0]
  /\ next_id = 0
  /\ batch_size \in 1..MaxBatch
  /\ replicas \in { 1..n : n \in 1..NumDispatchers }
  /\ pc = [d \in Dispatchers |-> IF d \in replicas THEN "while" ELSE "off"]
  /\ stopped = [d \in Dispatchers |-> FALSE]
  /\ session = [d \in Dispatchers |-> ClosedSession]
  /\ published = [r \in Records |-> 0]
  /\ accepted = [r \in Records |-> 0]
  /\ exchange = {}
  /\ faults = [rejected |-> 0, unconfirmed |-> 0, store |-> 0, crash |-> 0]

\* one step of a cycle of run() of dispatcher d
cycle(d) ==
  \/ run_claim(d)
  \/ run_claim_error(d)
  \/ run_wake(d)
  \/ run_build(d)
  \/ run_build_error(d)
  \/ \E outcome \in {"accepted", "raised", "unconfirmed"} : publish(d, outcome)
  \/ mark_published(d)
  \/ mark_published_error(d)
  \/ record_failure(d)
  \/ record_failure_error(d)

\* one step of run() of dispatcher d
run(d) ==
  \/ run_return(d)
  \/ cycle(d)

\* the business transactions that write to the outbox
Writer ==
  \/ \E a \in EventArgs : add_outbox_event(a)
  \/ db_commit
  \/ db_rollback

Next ==
  \/ Writer
  \/ \E d \in Dispatchers : run(d)
  \/ \E d \in Dispatchers : stop(d)
  \/ \E d \in Dispatchers : crash(d)

Spec == Init /\ [][Next]_vars

\* a backlog: the business transactions have committed their records and
\* the dispatchers are started afterwards
InitBacklog ==
  /\ \E n \in 1..MaxRecords :
       /\ next_id = n
       /\ outbox = [r \in 1..n |-> InsertRow(NewOutboxEvent(r, ExampleArgs, 1))]
       /\ db_calls = [add |-> n, commit |-> 1, rollback |-> 0]
  /\ now = 1
  /\ db_new = << >>
  /\ users = {}
  /\ db_user = {}
  /\ reg = [pc |-> "idle", user |-> NULL, result |-> NULL,
            events |-> << >>, todo |-> << >>]
  /\ batch_size \in 1..MaxBatch
  /\ replicas \in { 1..n : n \in 1..NumDispatchers }
  /\ pc = [d \in Dispatchers |-> IF d \in replicas THEN "while" ELSE "off"]
  /\ stopped = [d \in Dispatchers |-> FALSE]
  /\ session = [d \in Dispatchers |-> ClosedSession]
  /\ published = [r \in Records |-> 0]
  /\ accepted = [r \in Records |-> 0]
  /\ exchange = {}
  /\ faults = [rejected |-> 0, unconfirmed |-> 0, store |-> 0, crash |-> 0]

\* the dispatchers draining the backlog: nobody calls stop()
LiveNext ==
  \/ \E d \in Dispatchers : cycle(d)
  \/ \E d \in Dispatchers : crash(d)

\* every dispatcher process keeps running
LiveSpec ==
  InitBacklog /\ [][LiveNext]_vars /\ \A d \in Dispatchers : WF_vars(cycle(d))

\* a single dispatcher draining the backlog
InitSingleBacklog == InitBacklog /\ replicas = {1}
SingleLiveSpec ==
  InitSingleBacklog /\ [][LiveNext]_vars /\ \A d \in Dispatchers : WF_vars(cycle(d))

\* one step of run() in which every call of the store and of the broker
\* returns or raises (a publish that returns without the broker having the
\* message takes the same path through run() as one the broker accepted)
run_step(d) ==
  \/ run_return(d)
  \/ run_claim(d)
  \/ run_claim_error(d)
  \/ run_wake(d)
  \/ run_build(d)
  \/ run_build_error(d)
  \/ \E outcome \in {"accepted", "raised"} : publish(d, outcome)
  \/ mark_published(d)
  \/ mark_published_error(d)
  \/ record_failure(d)
  \/ record_failure_error(d)

\* the dispatchers draining the backlog while stop() is called on them at
\* any moment, and no process dies
StopNext ==
  \/ \E d \in Dispatchers : run_step(d)
  \/ \E d \in Dispatchers : stop(d)

StopSpec ==
  InitBacklog /\ [][StopNext]_vars /\ \A d \in Dispatchers : WF_vars(run_step(d))

\* single dispatcher
InitSingle == Init /\ replicas = {1}
SingleSpec == InitSingle /\ [][Next]_vars

\* the requests that register users, next to other business transactions
\* and a running dispatcher
Registration ==
  \/ \E a \in RegisterArgs : register_user(a)
  \/ User_register
  \/ save_flush
  \/ register_user_reraise
  \/ save_flush_error
  \/ \E u \in Usernames : add_outbox_event(UserEventArgs(u))
  \/ db_commit
  \/ db_commit_error

\* one step of a cycle of run() in which neither the broker nor the store
\* fails
dispatch(d) ==
  \/ run_claim(d)
  \/ run_wake(d)
  \/ run_build(d)
  \/ publish(d, "accepted")
  \/ mark_published(d)

RegisterNext ==
  \/ Registration
  \/ \E a \in EventArgs : add_outbox_event(a)
  \/ db_rollback
  \/ \E d \in Dispatchers : dispatch(d)

RegisterSpec == InitSingle /\ [][RegisterNext]_vars

\* ------------------------------------------------------------------------
\* Properties
\* ------------------------------------------------------------------------
Pending(r) == r \in DOMAIN outbox /\ outbox[r].published_at = NoTime
IsPublished(r) == r \in DOMAIN outbox /\ outbox[r].published_at # NoTime

\* a backlog of two or more records has been drained by two or more
\* dispatchers in spite of a fault
C3_Witness ==
  /\ Cardinality(DOMAIN outbox) >= 2
  /\ Cardinality(replicas) >= 2
  /\ FaultCount >= 1
  /\ \A r \in DOMAIN outbox : IsPublished(r)

\* C3: under fair scheduling of the dispatchers, with finitely many broker
\* faults, store faults and crashes, the committed records eventually all
\* have published_at non-null, and no committed record ever leaves the store
C3_EventuallyPublished ==
  /\ <>(\A r \in DOMAIN outbox : IsPublished(r))
  /\ [][DOMAIN outbox \subseteq DOMAIN outbox']_vars

\* the dispatcher is inside the for loop of a cycle
InBatch(d) == pc[d] \in {"evt", "publish", "mark", "record_failure"}

\* the records of d's batch whose status update d has not committed yet
Unresolved(d) ==
  IF InBatch(d)
  THEN { session[d].events[k] : k \in session[d].i..Len(session[d].events) }
  ELSE {}

\* a dispatcher is in the middle of processing record r
InProgress(r) == \E d \in Dispatchers : InBatch(d) /\ Evt(d) = r

\* dispatcher d takes a step
Steps(d) == pc'[d] # pc[d] \/ session'[d] # session[d]

\* C1: a record that one dispatcher has claimed and not yet resolved is not
\* in the batch of another dispatcher, whatever its position in the batch
C1_ExclusiveClaim ==
  \A d, e \in Dispatchers : d # e => Unresolved(d) \cap Unresolved(e) = {}

\* C2: once published_at is committed non-null the row is never changed
\* again and _publish is never called for it again
C2_PublishedIsTerminal ==
  [][\A r \in DOMAIN outbox :
       outbox[r].published_at # NoTime =>
         /\ outbox'[r] = outbox[r]
         /\ published'[r] = published[r]]_vars

\* C4: a record with published_at non-null has been accepted by the broker
\* at least once
C4_PublishedWasAccepted ==
  \A r \in DOMAIN outbox : outbox[r].published_at # NoTime => accepted[r] >= 1

\* C5: when a dispatcher crashes between the return of _publish and the
\* commit of the status update, the record is pending after the restart,
\* with the attempt_count it had when the dispatcher read it
C5_CrashLeavesPending ==
  [][\A d \in Dispatchers :
       (pc[d] = "mark" /\ faults'.crash = faults.crash + 1 /\ Steps(d)) =>
         /\ outbox'[Evt(d)].published_at = NoTime
         /\ outbox'[Evt(d)].attempt_count = session[d].objs[session[d].i]]_vars

\* C6: attempt_count of a record never decreases
C6_AttemptCountMonotone ==
  [][\A r \in DOMAIN outbox :
       outbox'[r].attempt_count >= outbox[r].attempt_count]_vars

\* C7: absent a crash, attempt_count of a record that no dispatcher is
\* processing equals the number of _publish calls made for it
C7_AttemptCountIsAttempts ==
  faults.crash = 0 =>
    \A r \in DOMAIN outbox :
      ~InProgress(r) => outbox[r].attempt_count = published[r]

\* C9: inside a batch, a failure at an earlier record neither keeps the
\* dispatcher from reaching a later record, nor from writing the outcome of
\* a later record whose own updates the store did not refuse, nor changes
\* the rows of the earlier records
C9_RecordsAreIsolated ==
  [][\A d \in Dispatchers :
       (InBatch(d) /\ Steps(d) /\ faults' = faults) =>
         /\ (pc[d] = "evt" => pc'[d] # "sleep")
         /\ (pc[d] = "record_failure"
               /\ session[d].failed_at # session[d].i =>
                 outbox'[Evt(d)].attempt_count = outbox[Evt(d)].attempt_count + 1)
         /\ \A k \in 1..(session[d].i - 1) :
              outbox'[session[d].events[k]] = outbox[session[d].events[k]]]_vars

\* C8: single dispatcher, no store fault, no crash, a broker that rejects
\* or accepts: while no publish of a record was accepted, attempt_count is
\* the number of rejected publishes, last_error is set after the first
\* rejection and published_at is null; after the accepted publish
\* attempt_count is the number of rejections plus one, last_error is null
\* and published_at is set
C8_RejectThenAccept ==
  (faults.store = 0 /\ faults.crash = 0 /\ faults.unconfirmed = 0) =>
    \A r \in DOMAIN outbox :
      ~InProgress(r) =>
        LET k == published[r] - accepted[r] IN
          IF accepted[r] = 0
          THEN /\ outbox[r].attempt_count = k
               /\ outbox[r].published_at = NoTime
               /\ (k >= 1 => outbox[r].last_error # NULL)
          ELSE /\ outbox[r].attempt_count = k + 1
               /\ outbox[r].last_error = NULL
               /\ outbox[r].published_at # NoTime

\* a record that was rejected once and accepted at the second attempt
C8_Witness ==
  \E r \in DOMAIN outbox :
    /\ ~InProgress(r)
    /\ published[r] = 2
    /\ accepted[r] = 1
    /\ faults.rejected = 1
    /\ outbox[r].published_at # NoTime

\* C10: a call of add_outbox_event is one db.add of the new object: it adds
\* that object to the objects staged on the session, leaves the other staged
\* objects and the committed rows alone and calls neither commit nor rollback
C10_AddOnlyStages ==
  [][next_id' # next_id =>
       /\ next_id' = next_id + 1
       /\ db_calls' = [db_calls EXCEPT !.add = @ + 1]
       /\ DOMAIN db_new' = DOMAIN db_new \cup {next_id'}
       /\ db_new'[next_id'].id = next_id'
       /\ \A r \in DOMAIN db_new : db_new'[r] = db_new[r]
       /\ outbox' = outbox]_vars

\* two calls of add_outbox_event in one transaction, nothing committed
C10_Witness ==
  /\ Cardinality(DOMAIN db_new) = 2
  /\ db_calls = [add |-> 2, commit |-> 0, rollback |-> 0]
  /\ outbox = << >>

\* C11: a commit stores every staged record, with the fields it was staged
\* with and published_at null, attempt_count 0, last_error null; afterwards
\* a committed row changes only in a step of a dispatcher that is processing
\* that record, and it never leaves the store
C11_CommittedStartsPending ==
  [][/\ db_calls'.commit # db_calls.commit => DOMAIN db_new \subseteq DOMAIN outbox'
     /\ DOMAIN outbox \subseteq DOMAIN outbox'
     /\ \A r \in DOMAIN outbox' :
          IF r \notin DOMAIN outbox
          THEN /\ r \in DOMAIN db_new
               /\ db_calls'.commit = db_calls.commit + 1
               /\ outbox'[r].published_at = NoTime
               /\ outbox'[r].attempt_count = 0
               /\ outbox'[r].last_error = NULL
               /\ \A f \in DOMAIN db_new[r] : outbox'[r][f] = db_new[r][f]
          ELSE outbox'[r] # outbox[r] =>
                 \E d \in Dispatchers : InBatch(d) /\ Evt(d) = r /\ Steps(d)]_vars

\* a record was committed and processed, a record committed with it or
\* after it has not been looked at by the dispatcher yet
C11_Witness ==
  \E q, r \in DOMAIN outbox :
    /\ IsPublished(q)
    /\ published[r] = 0
    /\ ~InProgress(r)
    /\ outbox[r].published_at = NoTime
    /\ outbox[r].attempt_count = 0
    /\ outbox[r].last_error = NULL

\* the user.registered records of user u among the committed rows
RegisteredRecords(u) ==
  { r \in DOMAIN outbox : /\ outbox[r].aggregate_type = "User"
                          /\ outbox[r].aggregate_id = u
                          /\ outbox[r].event_type = "user.registered" }

\* a call of register_user ends with an exception
RegisterRaises ==
  reg.pc # "idle" /\ reg'.pc = "idle" /\ reg'.result # "returned"

\* C12: in every state a user row is committed exactly when its
\* user.registered record is; a call of register_user that raises (in
\* validation, in save or in commit) has called rollback and not commit,
\* leaves nothing staged on the session and commits nothing; a call that
\* returns has committed the row and the record in one commit
C12_RegisterIsAtomic ==
  /\ [](\A u \in Usernames :
          Cardinality(RegisteredRecords(u)) = IF u \in users THEN 1 ELSE 0)
  /\ [][/\ RegisterRaises =>
            /\ reg'.result \in {"ValueError", "error"}
            /\ db_calls'.rollback > db_calls.rollback
            /\ db_calls'.commit = db_calls.commit
            /\ db_new' = << >>
            /\ db_user' = {}
            /\ users' = users
            /\ outbox' = outbox
        /\ (reg.pc # "idle" /\ db_calls'.commit # db_calls.commit) =>
            /\ reg.pc = "commit"
            /\ reg'.result = "returned"
            /\ users' = users \cup {reg.user.username}
            /\ \E r \in DOMAIN outbox' \ DOMAIN outbox :
                 /\ outbox'[r].aggregate_type = "User"
                 /\ outbox'[r].aggregate_id = reg.user.username
                 /\ outbox'[r].event_type = "user.registered"]_vars

\* one user is registered, and a later call of register_user met a store
\* error in save or in commit
C12_Witness ==
  /\ users # {}
  /\ reg.pc = "idle"
  /\ reg.result = "error"
  /\ \A u \in users : RegisteredRecords(u) # {}

\* dispatcher d runs the claim query and gets a batch
Claims(d) == pc[d] = "while" /\ pc'[d] = "evt"

\* C13: the batch a claim query returns has between one and batch_size
\* records, all of them committed rows with published_at null when the
\* query runs; so a row whose published_at is non-null is in no batch
\* claimed afterwards, by any dispatcher
C13_ClaimsOnlyPending ==
  [][\A d \in Dispatchers :
       Claims(d) =>
         LET b == session'[d].events IN
           /\ Len(b) \in 1..batch_size
           /\ \A k \in 1..Len(b) : Pending(b[k])
           /\ \A r \in DOMAIN outbox : IsPublished(r) => r \notin Range(b)]_vars

\* a dispatcher is in a batch that leaves out an older record, which is
\* published
C13_Witness ==
  \E d \in Dispatchers :
    /\ InBatch(d)
    /\ \E r \in DOMAIN outbox :
         /\ IsPublished(r)
         /\ r \notin Range(session[d].events)
         /\ outbox[r].created_at < outbox[session[d].events[1]].created_at

\* the transaction in which dispatcher d ran its claim query is still open
ClaimOpen(d) == session[d].locked # {}

\* C14: a dispatcher at the claim query can always take that step, whatever
\* rows the others have locked; the batch it gets holds no row locked by the
\* open transaction of another dispatcher; and two dispatchers whose claim
\* transactions are both open hold disjoint batches
C14_ClaimSkipsLocked ==
  /\ [](\A d \in Dispatchers :
          (pc[d] = "while" /\ ~stopped[d]) => ENABLED run_claim(d))
  /\ [](\A d, e \in Dispatchers :
          (d # e /\ ClaimOpen(d) /\ ClaimOpen(e)) =>
            Range(session[d].events) \cap Range(session[e].events) = {})
  /\ [][\A d \in Dispatchers :
          Claims(d) => Range(session'[d].events) \cap LockedByOthers(d) = {}]_vars

\* two dispatchers hold a batch each and neither has committed yet
C14_Witness ==
  \E d, e \in Dispatchers :
    /\ d # e
    /\ ClaimOpen(d)
    /\ ClaimOpen(e)
    /\ InBatch(d)
    /\ InBatch(e)

\* C15: when the success update of a record raises after _publish returned,
\* the exception is caught (the dispatcher goes on in its handler), the
\* record has published_at null, so that a later claim query returns it
\* again, and it is still in the store
C15_FailedUpdateLeavesPending ==
  [][\A d \in Dispatchers :
       (pc[d] = "mark" /\ pc'[d] = "record_failure") =>
         /\ Evt(d) \in DOMAIN outbox'
         /\ outbox'[Evt(d)].published_at = NoTime]_vars

\* C16: run() has returned only if stop() was called, and the step in which
\* it returns is no step in which the store or the broker fails
C16_ReturnsOnlyAfterStop ==
  /\ [](\A d \in Dispatchers : pc[d] = "done" => stopped[d])
  /\ [][\A d \in Dispatchers :
          (pc[d] # "done" /\ pc'[d] = "done") =>
            (stopped[d] /\ faults' = faults)]_vars

\* run() has returned after stop(), and the store or the broker had failed
\* while it ran
C16_Witness ==
  \E d \in Dispatchers :
    /\ pc[d] = "done"
    /\ faults.store + faults.rejected >= 1
    /\ faults.crash = 0

\* C17: run() returns only from the loop condition, between two cycles:
\* the session of the last cycle is closed, so the dispatcher holds no
\* batch, no row lock and no record in progress, and after stop() a
\* dispatcher inside a batch goes on with the batch
C17_StopAtCycleBoundary ==
  /\ [](\A d \in Dispatchers : pc[d] = "done" => session[d] = ClosedSession)
  /\ [][\A d \in Dispatchers :
          /\ (pc[d] # "done" /\ pc'[d] = "done") =>
                (pc[d] = "while" /\ session[d].locked = {})
          /\ (stopped[d] /\ InBatch(d) /\ Steps(d) /\ faults'.crash = faults.crash)
                => (InBatch(d)' \/ session'[d] = ClosedSession)]_vars

\* stop() was called while a record is in progress and its locks are held:
\* the dispatcher is still at that record
C17_Witness ==
  \E d \in Dispatchers :
    /\ stopped[d]
    /\ pc[d] = "mark"
    /\ session[d].locked # {}

\* C18: single dispatcher: the batch of a claim query is sorted by
\* created_at, every pending record left out is younger than every record
\* of the batch, the for loop goes through the batch from the first
\* position to the last, and _publish is called for the record at the
\* position of the loop
C18_OldestFirst ==
  [][\A d \in Dispatchers :
       /\ Claims(d) =>
            LET b == session'[d].events IN
              /\ \A j, k \in 1..Len(b) :
                   j < k => outbox[b[j]].created_at < outbox[b[k]].created_at
              /\ \A r \in DOMAIN outbox :
                   (Pending(r) /\ r \notin Range(b)) =>
                     \A k \in 1..Len(b) :
                       outbox[b[k]].created_at < outbox[r].created_at
       /\ (InBatch(d) /\ InBatch(d)') =>
            /\ session'[d].events = session[d].events
            /\ session'[d].i \in {session[d].i, session[d].i + 1}
       /\ \A r \in Records :
            (published'[r] # published[r] /\ Steps(d)) =>
              (pc[d] = "publish" /\ r = Evt(d))]_vars

\* the dispatcher has called _publish for both records of a batch of two,
\* the older one first
C18_Witness ==
  \E d \in Dispatchers :
    /\ pc[d] = "mark"
    /\ Len(session[d].events) = 2
    /\ session[d].i = 2
    /\ published[session[d].events[1]] = 1
    /\ published[session[d].events[2]] = 1
    /\ outbox[session[d].events[1]].created_at
         < outbox[session[d].events[2]].created_at

\* the messages on the exchange whose header event_id names record r
MessagesOf(r) == { m \in exchange : m.headers.event_id = ToString(outbox[r].id) }

\* C19: single dispatcher, no broker fault, no store fault, no crash: once
\* the cycle that claimed a record has dealt with it, _publish was called
\* once for it, the broker holds exactly one message with its id in the
\* header event_id, the routing key of that message is aggregate_type,
\* ".", event_type, and the row has published_at set, attempt_count 1 and
\* last_error null
C19_OneCycleOneMessage ==
  FaultCount = 0 =>
    \A r \in DOMAIN outbox :
      (published[r] >= 1 /\ ~InProgress(r)) =>
        /\ published[r] = 1
        /\ accepted[r] = 1
        /\ Cardinality(MessagesOf(r)) = 1
        /\ \A m \in MessagesOf(r) :
             m.routing_key = outbox[r].aggregate_type \o "." \o outbox[r].event_type
        /\ outbox[r].published_at # NoTime
        /\ outbox[r].attempt_count = 1
        /\ outbox[r].last_error = NULL

\* the record of the docstring example was published in its first cycle
\* and its message is on the exchange
C19_Witness ==
  /\ FaultCount = 0
  /\ \E r \in DOMAIN outbox :
       /\ ~InProgress(r)
       /\ outbox[r].attempt_count = 1
       /\ IsPublished(r)
       /\ \E m \in exchange :
            /\ m.routing_key = "User.user.registered"
            /\ m.headers.event_id = ToString(r)

\* C20: whatever the attempt_count, a claim query returns every pending
\* record that no other dispatcher has locked, unless the batch is full of
\* older ones; the failure path leaves published_at as it is, and no step
\* removes a row
C20_PendingStaysEligible ==
  [][/\ DOMAIN outbox \subseteq DOMAIN outbox'
     /\ \A d \in Dispatchers :
          /\ (pc[d] = "while" /\ Steps(d) /\ faults' = faults) =>
               LET b == session'[d].events IN
                 \A r \in DOMAIN outbox :
                   (Pending(r) /\ r \notin LockedByOthers(d)) =>
                     \/ r \in Range(b)
                     \/ /\ Len(b) = batch_size
                        /\ \A k \in 1..Len(b) :
                             outbox[b[k]].created_at < outbox[r].created_at
          /\ (pc[d] = "record_failure" /\ Steps(d)) =>
               outbox'[Evt(d)].published_at = outbox[Evt(d)].published_at]_vars

\* a record that failed twice is pending and in a batch again
C20_Witness ==
  \E d \in Dispatchers :
    /\ InBatch(d)
    /\ Pending(Evt(d))
    /\ session[d].objs[session[d].i] >= 2
    /\ published[Evt(d)] >= 2

\* the columns no statement of the dispatcher assigns
ImmutableColumns ==
  {"id", "aggregate_type", "aggregate_id", "event_type", "event_version",
   "payload", "occurred_at", "created_at"}

\* C21: a step of a dispatcher neither inserts nor deletes a row, leaves
\* id, aggregate_type, aggregate_id, event_type, event_version, payload,
\* occurred_at and created_at of every row as they are, and changes
\* published_at, attempt_count and last_error of no row but the one its for
\* loop is at
C21_DispatcherFrame ==
  [][\A d \in Dispatchers :
       Steps(d) =>
         /\ DOMAIN outbox' = DOMAIN outbox
         /\ \A r \in DOMAIN outbox :
              /\ \A c \in ImmutableColumns : outbox'[r][c] = outbox[r][c]
              /\ outbox'[r] # outbox[r] => (InBatch(d) /\ r = Evt(d))]_vars

\* two dispatchers have written to two rows: one row carries a failure,
\* the other is published, and both still carry what was enqueued
C21_Witness ==
  /\ Cardinality(replicas) >= 2
  /\ \E q, r \in DOMAIN outbox :
       /\ outbox[q].last_error # NULL
       /\ outbox[q].attempt_count >= 1
       /\ IsPublished(r)
       /\ q # r
       /\ outbox[q].event_type = "user.registered"
       /\ outbox[r].payload = "user.registered"

\* the pending records that are older than record r
OlderPending(r) ==
  { q \in DOMAIN outbox : Pending(q) /\ outbox[q].created_at < outbox[r].created_at }

\* C22: single dispatcher: a pending record has been attempted by the time
\* batch_size or more older pending records have each failed on every one
\* of MaxFaults attempts, all of them finished and recorded
C22_NoHeadOfLineBlocking ==
  \A r \in DOMAIN outbox :
    ( /\ Pending(r)
      /\ Cardinality(OlderPending(r)) >= batch_size
      /\ \A q \in OlderPending(r) :
           /\ ~InProgress(q)
           /\ accepted[q] = 0
           /\ published[q] >= MaxFaults
           /\ outbox[q].attempt_count = published[q] )
    => published[r] >= 1

\* C22, amended: single dispatcher: a claim query returns a pending record
\* exactly when fewer than batch_size older records are pending, whatever
\* the attempts made for them: older records that stay pending keep a
\* younger one out of every batch
C22_ClaimedWhenOlderAreFew ==
  [][\A d \in Dispatchers :
       (pc[d] = "while" /\ Steps(d) /\ faults' = faults) =>
         \A r \in DOMAIN outbox :
           Pending(r) =>
             (r \in Range(session'[d].events)
                <=> Cardinality(OlderPending(r)) < batch_size)]_vars

\* the oldest record failed twice and is in the batch for the third time,
\* a younger pending record has not been attempted yet
C22_Witness ==
  \E d \in Dispatchers, r \in DOMAIN outbox :
    /\ InBatch(d)
    /\ outbox[Evt(d)].attempt_count = 2
    /\ published[Evt(d)] = 2
    /\ accepted[Evt(d)] = 0
    /\ Evt(d) \in OlderPending(r)
    /\ Pending(r)
    /\ published[r] = 0

\* C23: a row with published_at non-null has last_error null and
\* attempt_count at least 1
C23_PublishedHasNoError ==
  \A r \in DOMAIN outbox :
    outbox[r].published_at # NoTime =>
      (outbox[r].last_error = NULL /\ outbox[r].attempt_count >= 1)

\* the records that were staged and rolled back
RolledBack == (1..next_id) \ (DOMAIN outbox \cup DOMAIN db_new)

\* C24: rows become visible to the dispatchers only in a commit of the
\* session that staged them; every record in a batch, every record _publish
\* was called for and every message on the exchange belongs to a committed
\* row; a record that is staged and not committed, or rolled back, is in no
\* batch and was never published
C24_OnlyCommittedArePublished ==
  /\ [][DOMAIN outbox' # DOMAIN outbox =>
          /\ db_calls'.commit = db_calls.commit + 1
          /\ db_calls'.rollback = db_calls.rollback
          /\ DOMAIN outbox' = DOMAIN outbox \cup DOMAIN db_new]_vars
  /\ [](\A d \in Dispatchers : Range(session[d].events) \subseteq DOMAIN outbox)
  /\ [](\A r \in Records : published[r] >= 1 => r \in DOMAIN outbox)
  /\ [](\A m \in exchange :
          \E r \in DOMAIN outbox : m.headers.event_id = ToString(outbox[r].id))
  /\ [](\A r \in DOMAIN db_new \cup RolledBack :
          /\ r \notin DOMAIN outbox
          /\ published[r] = 0
          /\ \A d \in Dispatchers : r \notin Range(session[d].events))

\* one record was rolled back, and a record that was committed is
\* published and on the exchange
C24_Witness ==
  /\ RolledBack # {}
  /\ db_calls.rollback >= 1
  /\ \E r \in DOMAIN outbox : accepted[r] >= 1 /\ IsPublished(r)

\* C25: inside a cycle, a call of _publish is followed by the status update
\* of the same record (success update, or failure update when it raised),
\* and the for loop moves to the next record only from a status update that
\* was committed or has failed; so the only record of a dispatcher that the
\* broker has taken and whose status update was not attempted is the one
\* the loop is at
C25_OneRecordAtATime ==
  [][\A d \in Dispatchers :
       /\ (Steps(d) /\ published' # published) =>
            /\ pc[d] = "publish"
            /\ pc'[d] \in {"mark", "record_failure"}
            /\ session'[d].i = session[d].i
            /\ published' = [published EXCEPT ![Evt(d)] = @ + 1]
       /\ (InBatch(d) /\ InBatch(d)' /\ session'[d].i # session[d].i) =>
            /\ pc[d] \in {"mark", "record_failure"}
            /\ pc'[d] = "evt"
            /\ session'[d].i = session[d].i + 1
       /\ ~(pc[d] = "mark" /\ Steps(d) /\ pc'[d] = "mark")]_vars

\* _publish is about to be called for the second record of a batch: the
\* status update of the first one is committed, the second one was never
\* published
C25_Witness ==
  \E d \in Dispatchers :
    /\ pc[d] = "publish"
    /\ session[d].i = 2
    /\ IsPublished(session[d].events[1])
    /\ published[session[d].events[1]] = 1
    /\ published[session[d].events[2]] = 0

\* C26: a claim query that raises ends the cycle at the sleep with the
\* session closed, no call of _publish, no message on the exchange and every
\* row as it was; run() does not return, and when the sleep is over the
\* dispatcher is at the loop condition again, where the claim query can run
C26_ClaimErrorIsRetried ==
  /\ [][\A d \in Dispatchers :
          /\ (pc[d] = "while" /\ pc'[d] # "while"
                 /\ faults'.store # faults.store) =>
               /\ pc'[d] = "sleep"
               /\ session'[d] = ClosedSession
               /\ outbox' = outbox
               /\ published' = published
               /\ accepted' = accepted
               /\ exchange' = exchange
               /\ stopped' = stopped
          /\ (faults'.store # faults.store /\ pc[d] = "while") =>
               (pc'[d] \in {"while", "sleep"} /\ outbox' = outbox)
          /\ (pc[d] = "sleep" /\ Steps(d) /\ faults' = faults) =>
               pc'[d] = "while"]_vars
  /\ [](\A d \in Dispatchers : pc[d] = "sleep" => ENABLED run_wake(d))
  /\ [](\A d \in Dispatchers :
          (pc[d] = "while" /\ ~stopped[d]) => ENABLED run_claim(d))

\* the only fault so far is a store error, no _publish was called yet, so
\* the error was raised by the claim query; the single dispatcher has slept
\* and has claimed a batch in a later cycle
C26_Witness ==
  /\ replicas = {1}
  /\ faults.store = 1
  /\ FaultCount = 1
  /\ \A r \in Records : published[r] = 0
  /\ InBatch(1)
  /\ \A r \in DOMAIN outbox : outbox[r].attempt_count = 0

\* C27: single dispatcher, no crash, no store error, a broker that accepts
\* every publish: whatever the number of cycles, the broker has accepted at
\* most one message per record, a row with published_at set has exactly one
\* accepted message, a record whose message was accepted is published once
\* the loop has left it, and _publish is called for committed pending rows
\* only
C27_ExactlyOnceWithoutFaults ==
  /\ [](FaultCount = 0 =>
          \A r \in Records :
            /\ accepted[r] <= 1
            /\ published[r] = accepted[r]
            /\ Cardinality({ m \in exchange : m.headers.event_id = ToString(r) })
                 = accepted[r]
            /\ accepted[r] = 1 => r \in DOMAIN outbox
            /\ IsPublished(r) => accepted[r] = 1
            /\ (accepted[r] = 1 /\ ~InProgress(r)) => IsPublished(r))
  /\ [][FaultCount = 0 =>
          \A r \in Records :
            accepted'[r] # accepted[r] => (Pending(r) /\ accepted[r] = 0)]_vars

\* no fault so far; two records were delivered once each, the second one
\* committed after the first was published, and the dispatcher has run a
\* further cycle that found nothing
C27_Witness ==
  /\ FaultCount = 0
  /\ pc[1] = "sleep"
  /\ \E q, r \in DOMAIN outbox :
       /\ q < r
       /\ IsPublished(q) /\ accepted[q] = 1
       /\ IsPublished(r) /\ accepted[r] = 1
       /\ outbox[q].published_at < outbox[r].occurred_at

\* C28: once stop() was called run() returns, every call of the store and
\* of the broker returning or raising: _stopped stays set, so from some
\* moment on every dispatcher that was stopped has returned; a stopped
\* dispatcher at the loop condition only returns, it starts no new cycle;
\* inside a batch or in the sleep it goes on to the loop condition
C28_StopTerminates ==
  /\ <>[](\A d \in Dispatchers : stopped[d] => pc[d] = "done")
  /\ [][\A d \in Dispatchers :
          /\ (stopped[d] /\ pc[d] = "while" /\ Steps(d)) => pc'[d] = "done"
          /\ (stopped[d] /\ Steps(d)) => ~Claims(d)
          /\ stopped[d] => stopped'[d]]_vars

\* run() of the single dispatcher has returned after stop(): one record is
\* published, a pending record was never attempted
C28_Witness ==
  /\ replicas = {1}
  /\ pc[1] = "done"
  /\ stopped[1]
  /\ \E q, r \in DOMAIN outbox :
       /\ IsPublished(q)
       /\ Pending(r)
       /\ published[r] = 0

\* a step of UserRepository.save, called by register_user
SaveSteps == reg.pc \in {"save", "events"} /\ reg' # reg

\* the records staged on the session for the aggregate of the running call
StagedFor(u) ==
  { r \in DOMAIN db_new : /\ db_new[r].aggregate_type = "User"
                          /\ db_new[r].aggregate_id = u }

\* C29: no step of save commits: the commit count, the committed users and
\* the committed outbox rows stay as they are; when save returns, the
\* session holds the user row and one staged outbox record for each event
\* that was pending, carrying its event type, and the aggregate has no
\* pending event left
C29_SaveStagesOnly ==
  /\ [][SaveSteps =>
          /\ db_calls'.commit = db_calls.commit
          /\ users' = users
          /\ outbox' = outbox]_vars
  /\ [](reg.pc = "save" =>
          /\ reg.events = << "user.registered" >>
          /\ StagedFor(reg.user.username) = {})
  /\ [](reg.pc = "events" =>
          /\ reg.events = << "user.registered" >>
          /\ reg.user.username \in db_user
          /\ Cardinality(StagedFor(reg.user.username))
               = Len(reg.events) - Len(reg.todo))
  /\ [](reg.pc = "commit" =>
          /\ reg.events = << >>
          /\ reg.todo = << >>
          /\ reg.user.username \in db_user
          /\ reg.user.username \notin users
          /\ Cardinality(StagedFor(reg.user.username)) = 1
          /\ \A r \in StagedFor(reg.user.username) :
               /\ db_new[r].event_type = "user.registered"
               /\ r \notin DOMAIN outbox)

\* save has returned and register_user has not committed yet: the user row
\* and its user.registered record are staged, no commit was called, the
\* aggregate has no pending event
C29_Witness ==
  /\ reg.pc = "commit"
  /\ reg.events = << >>
  /\ db_calls.commit = 0
  /\ db_user = {reg.user.username}
  /\ \E r \in DOMAIN db_new :
       /\ db_new[r].aggregate_id = reg.user.username
       /\ db_new[r].event_type = "user.registered"

\* C30: the flush of save raises IntegrityError exactly when the username
\* is taken; save then calls rollback once and commit never, raises
\* ValueError to register_user, and leaves no user row and no outbox record
\* staged on the session; the committed rows are as they were
C30_SaveRollsBackOnIntegrityError ==
  /\ [][/\ (reg.pc = "save" /\ reg'.pc = "except") =>
             /\ reg.user.username \in users
             /\ reg'.result = "ValueError"
             /\ db_calls'.rollback = db_calls.rollback + 1
             /\ db_calls'.commit = db_calls.commit
             /\ db_calls'.add = db_calls.add
             /\ users' = users
             /\ outbox' = outbox
        /\ (reg.pc = "save" /\ reg' # reg /\ faults' = faults
               /\ reg.user.username \in users) =>
             reg'.pc = "except"]_vars
  /\ [](reg.pc = "except" =>
          /\ reg.result = "ValueError"
          /\ db_new = << >>
          /\ db_user = {}
          /\ StagedFor(reg.user.username) = {}
          /\ db_calls.rollback >= 1)

\* save has raised ValueError for a username that is registered, after one
\* rollback; the user.registered record of the first registration is
\* committed
C30_Witness ==
  /\ reg.pc = "except"
  /\ reg.result = "ValueError"
  /\ db_calls.rollback = 1
  /\ reg.user.username \in users
  /\ RegisteredRecords(reg.user.username) # {}

====
